---- MODULE Spec2Model ----
(***************************************************************************)
(* LifetimeDiagrams (src/src/main.rs): read a Rust snippet from stdin,     *)
(* find the lifetime annotations `// ---\ label` ... `// ---/`, strip them *)
(* from the code and render code and lifetimes as an SVG document.         *)
(*                                                                         *)
(* Strings are sequences of one-character strings.  Rows are 0-based as in *)
(* the program; sequences are 1-based, so row i of `code` is code[i + 1].  *)
(***************************************************************************)
EXTENDS Integers, Sequences, FiniteSets, TLC

\* Longest input, in lines, that Init draws.
MaxLines == 4

\* Longest label text, in characters, that InitMarkup draws.
MaxMarkup == 4

(***************************************************************************)
(* The input lines.                                                        *)
(***************************************************************************)
\* ""
BlankLine == << >>
\* "a"
CodeLine == << "a" >>
\* "a// -\ a"      start of a 1-dash lifetime, comment "a"
Open1Line == << "a", "/", "/", " ", "-", "\\", " ", "a" >>
\* "// -/"         end of a 1-dash lifetime
Close1Line == << "/", "/", " ", "-", "/" >>
\* "a// --\"       start of a 2-dash lifetime, empty comment
Open2Line == << "a", "/", "/", " ", "-", "-", "\\" >>
\* " // --/a"      end of a 2-dash lifetime, comment "a"
Close2Line == << " ", "/", "/", " ", "-", "-", "/", "a" >>
\* "// -\// -/"    two annotation tokens on one line
TwoTokenLine == << "/", "/", " ", "-", "\\", "/", "/", " ", "-", "/" >>
\* "//-\ a"        no space after the slashes: an ordinary comment
NearMissLine == << "/", "/", "-", "\\", " ", "a" >>

LineSet ==
  { BlankLine, CodeLine, Open1Line, Close1Line, Open2Line, Close2Line,
    TwoTokenLine, NearMissLine }

RECURSIVE SeqsUpTo(_, _)
\* All sequences over S of length at most n.
SeqsUpTo(S, n) ==
  IF n = 0 THEN { << >> }
  ELSE LET shorter == SeqsUpTo(S, n - 1)
       IN  shorter \cup { Append(s, x) : s \in { t \in shorter : Len(t) = n - 1 }, x \in S }

Inputs == SeqsUpTo(LineSet, MaxLines)

\* RE, the annotation grammar: start of line, group 1 = any characters,
\* then "// ", group 2 = one or more '-', group 3 = '/' or '\', an optional
\* space, group 4 = any characters, end of line.
RECURSIVE DashRun(_, _)
\* Length of the run of '-' that starts at position p of s: what the greedy
\* (-+) consumes (a shorter run is followed by '-', never by a glyph).
DashRun(s, p) ==
  IF p <= Len(s) /\ s[p] = "-" THEN 1 + DashRun(s, p + 1) ELSE 0

\* s, after its first k characters, matches the pattern from "// " on.
TailMatches(s, k) ==
  /\ k + 5 <= Len(s)
  /\ s[k + 1] = "/"
  /\ s[k + 2] = "/"
  /\ s[k + 3] = " "
  /\ DashRun(s, k + 4) >= 1
  /\ k + 4 + DashRun(s, k + 4) <= Len(s)
  /\ s[k + 4 + DashRun(s, k + 4)] \in { "/", "\\" }

IsMatch(s) == \E k \in 0 .. Len(s) : TailMatches(s, k)

\* The capture groups of a matching line.  Group 1 is greedy: it is the
\* longest prefix after which the rest of the pattern still matches.
Captures(s) ==
  LET k == CHOOSE k \in 0 .. Len(s) :
             /\ TailMatches(s, k)
             /\ \A k2 \in (k + 1) .. Len(s) : ~TailMatches(s, k2)
      n == DashRun(s, k + 4)
      g == k + 4 + n
      rest == IF g + 1 <= Len(s) /\ s[g + 1] = " " THEN g + 2 ELSE g + 1
  IN  << SubSeq(s, 1, k),
         SubSeq(s, k + 4, k + 3 + n),
         << s[g] >>,
         SubSeq(s, rest, Len(s)) >>


(***************************************************************************)
(* find_lifetimes: the pieces of the loop body.                            *)
(***************************************************************************)
\* Mutant: the length of group 3, the glyph, is taken for the width.
MutDashCountOfGlyph(captures) == Len(captures[3])

\* captures[2].len()
dash_count(captures) == Len(captures[2])

\* Mutant: the glyphs are mixed up.
MutIsStartSlash(captures) == captures[3] = << "/" >>

\* &captures[3] == r"\"
is_start(captures) == captures[3] = << "\\" >>

\* unfinished_lifetimes is a HashMap<usize, Lifetime>: a function whose domain is
\* the set of keys present.
EmptyMap == << >>

contains_key(map, key) == key \in DOMAIN map

\* Mutant: the table is started afresh with the new entry.
MutInsertAlone(map, key, value) == [ k \in { key } |-> value ]

insert(map, key, value) ==
  [ k \in (DOMAIN map) \cup { key } |-> IF k = key THEN value ELSE map[k] ]

\* Mutant: the entry is read but stays in the table.
MutRemoveKeeps(map, key) == map

remove(map, key) == [ k \in (DOMAIN map) \ { key } |-> map[k] ]

\* Mutant: the lifetime goes to the front of the vector.
MutPushFront(vec, lt) == << lt >> \o vec

\* lifetimes.push(lt)
push(vec, lt) == Append(vec, lt)

\* Mutant: the row goes to ending_line and starting_line gets the 0.
MutNewLifetimeFieldsSwapped(row, comment) ==
  [ starting_line |-> 0, ending_line |-> row, comment |-> comment ]

\* Lifetime { starting_line: i, ending_line: 0, comment: comment.to_string() }
NewLifetime(row, comment) ==
  [ starting_line |-> row, ending_line |-> 0, comment |-> comment ]

\* Mutant: ending_line is left as it was.
MutFinishForgets(lt, row) == lt

\* lt.ending_line = i
Finish(lt, row) == [ lt EXCEPT !.ending_line = row ]

\* Mutant: the comment is kept instead of the code.
MutReplacementComment(captures) == captures[4]

\* Some(captures[1].to_string())
replacement(captures) == captures[1]

\* Mutant: the two rows are given in the other order.
MutNotFinishedSwapped(starting_line, row) ==
  << "Lifetime from line ", row,
     " not finished before it is started again on line ", starting_line >>

\* Mutant: the row is reported 1-based.
MutNotStartedOneBased(row) == << "Ending lifetime on line ", row + 1, " wasn't started" >>

\* The two panic messages, as the pieces of their format strings.
NotFinishedPanic(starting_line, row) ==
  << "Lifetime from line ", starting_line,
     " not finished before it is started again on line ", row >>

NotStartedPanic(row) == << "Ending lifetime on line ", row, " wasn't started" >>

\* One iteration of `for i in 0..code.len()`, on the locals (c, u, l) at row `row`.
\* panic is << >> when the iteration completes and << message >> when it panics;
\* a panic leaves the locals as they were when it was raised.
LoopBody(c, u, l, row) ==
  LET line == c[row + 1]
      same == [ code |-> c, unfinished_lifetimes |-> u, lifetimes |-> l, panic |-> << >> ]
  IN
  IF ~IsMatch(line) THEN same
  ELSE
    LET captures == Captures(line)
        dc == dash_count(captures)
        comment == captures[4]
        cleaned == [ c EXCEPT ![row + 1] = replacement(captures) ]
    IN
    IF contains_key(u, dc) THEN
      IF is_start(captures) THEN
        [ same EXCEPT !.panic = << NotFinishedPanic(u[dc].starting_line, row) >> ]
      ELSE
        [ code |-> cleaned,
          unfinished_lifetimes |-> remove(u, dc),
          lifetimes |-> push(l, Finish(u[dc], row)),
          panic |-> << >> ]
    ELSE
      IF is_start(captures) THEN
        [ code |-> cleaned,
          unfinished_lifetimes |-> insert(u, dc, NewLifetime(row, comment)),
          lifetimes |-> l,
          panic |-> << >> ]
      ELSE
        [ same EXCEPT !.panic = << NotStartedPanic(row) >> ]

RECURSIVE LoopFrom(_, _, _, _)
\* The rest of the loop from row `row` on, until it ends or panics.
LoopFrom(c, u, l, row) ==
  IF row >= Len(c)
    THEN [ code |-> c, unfinished_lifetimes |-> u, lifetimes |-> l, panic |-> << >> ]
    ELSE LET b == LoopBody(c, u, l, row)
         IN  IF b.panic # << >> THEN b
             ELSE LoopFrom(b.code, b.unfinished_lifetimes, b.lifetimes, row + 1)

\* find_lifetimes(&mut code) as a function of the buffer it is given.
find_lifetimes(c) == LoopFrom(c, EmptyMap, << >>, 0)

(***************************************************************************)
(* markup_to_svg                                                           *)
(***************************************************************************)
\* The state of the scan before the first character.
MarkupInit ==
  [ in_bold |-> FALSE, in_underline |-> FALSE, in_italic |-> FALSE,
    in_code |-> FALSE, escaped |-> FALSE, output |-> << >> ]

\* Mutant: only the bold flag is looked at.
MutAnyActiveBoldOnly(st) == st.in_bold

AnyActive(st) == st.in_bold \/ st.in_underline \/ st.in_italic \/ st.in_code

\* format!("<tspan class=\"{} {} {} {}\">", ...): one output token.
OpenTspan(st) ==
  "<tspan class=\"" \o (IF st.in_bold THEN "m_bold" ELSE "") \o " "
    \o (IF st.in_underline THEN "m_underline" ELSE "") \o " "
    \o (IF st.in_italic THEN "m_italic" ELSE "") \o " "
    \o (IF st.in_code THEN "m_code" ELSE "") \o "\">"

CloseTspan == "</tspan>"

\* The code delimiter, U+0060 (a string cannot hold that character).
Backtick == "U+0060"

\* The inner match: flip the toggle of delimiter c.
Toggle(st, c) ==
  CASE c = "_" -> [ st EXCEPT !.in_underline = ~st.in_underline ]
    [] c = Backtick -> [ st EXCEPT !.in_code = ~st.in_code ]
    [] c = "*" -> [ st EXCEPT !.in_bold = ~st.in_bold ]
    [] c = "/" -> [ st EXCEPT !.in_italic = ~st.in_italic ]

\* Mutant: spaces are skipped instead of pushed.
MutMarkupCharSkipsSpace(st, c) ==
  IF st.escaped THEN
    [ st EXCEPT !.output = Append(st.output, c), !.escaped = FALSE ]
  ELSE IF c \in { "_", Backtick, "*", "/" } THEN
    LET closed == IF AnyActive(st)
                    THEN [ st EXCEPT !.output = Append(st.output, CloseTspan) ]
                    ELSE st
        flipped == Toggle(closed, c)
    IN  IF AnyActive(flipped)
          THEN [ flipped EXCEPT !.output = Append(flipped.output, OpenTspan(flipped)) ]
          ELSE flipped
  ELSE IF c = "\\" THEN [ st EXCEPT !.escaped = TRUE ]
  ELSE IF c = " " THEN st
  ELSE [ st EXCEPT !.output = Append(st.output, c) ]

\* Mutant: the escape flag is tested after the delimiters, so an escaped
\* delimiter still toggles.
MutMarkupCharEscapeLate(st, c) ==
  IF c \in { "_", Backtick, "*", "/" } THEN
    LET closed == IF AnyActive(st)
                    THEN [ st EXCEPT !.output = Append(st.output, CloseTspan) ]
                    ELSE st
        flipped == Toggle(closed, c)
    IN  IF AnyActive(flipped)
          THEN [ flipped EXCEPT !.output = Append(flipped.output, OpenTspan(flipped)) ]
          ELSE flipped
  ELSE IF st.escaped THEN
    [ st EXCEPT !.output = Append(st.output, c), !.escaped = FALSE ]
  ELSE IF c = "\\" THEN [ st EXCEPT !.escaped = TRUE ]
  ELSE [ st EXCEPT !.output = Append(st.output, c) ]

\* The body of `for c in markup.chars()`.
MarkupChar(st, c) ==
  IF st.escaped THEN
    [ st EXCEPT !.output = Append(st.output, c), !.escaped = FALSE ]
  ELSE IF c \in { "_", Backtick, "*", "/" } THEN
    LET closed == IF AnyActive(st)
                    THEN [ st EXCEPT !.output = Append(st.output, CloseTspan) ]
                    ELSE st
        flipped == Toggle(closed, c)
    IN  IF AnyActive(flipped)
          THEN [ flipped EXCEPT !.output = Append(flipped.output, OpenTspan(flipped)) ]
          ELSE flipped
  ELSE IF c = "\\" THEN [ st EXCEPT !.escaped = TRUE ]
  ELSE [ st EXCEPT !.output = Append(st.output, c) ]

RECURSIVE MarkupScan(_, _)
\* The scan state after all of markup, started in state st.
MarkupScan(st, markup) ==
  IF markup = << >> THEN st
  ELSE MarkupScan(MarkupChar(st, Head(markup)), Tail(markup))

markup_to_svg(markup) == MarkupScan(MarkupInit, markup).output

(***************************************************************************)
(* generate_svg: the document is the sequence of the nodes appended to it. *)
(***************************************************************************)
\* Escape(&code[i]), of module escape: applied, not interpreted.
Escape(text) == [ escaped |-> text ]

\* The class selectors of the style sheet, in the order of the CDATA block.
Css == << "code", "annotation", "m_code", "m_italic", "m_underline", "m_bold", "line" >>

Defs == [ element |-> "defs", style |-> Css ]

\* Mutant: the first row is put at y = 0.
MutCodeTextNoOffset(c, row) ==
  [ element |-> "text", x |-> 0, y |-> row * 20, class |-> "code",
    content |-> Escape(c[row + 1]) ]

\* The text element of code row `row`.
CodeText(c, row) ==
  [ element |-> "text", x |-> 0, y |-> row * 20 + 20, class |-> "code",
    content |-> Escape(c[row + 1]) ]

LifetimeY0(lifetime) == lifetime.starting_line * 20 + 10
LifetimeYm(lifetime) == (lifetime.starting_line + 1) * 20
LifetimeY1(lifetime) == lifetime.ending_line * 20 + 30
LifetimeX0 == 150
\* Mutant: no fan-out.
MutXmNoFanOut(idx) == 230

LifetimeXm(idx) == 230 + 20 * idx
LifetimeX1 == 150

\* The annotation text of the lifetime at index idx.
LifetimeText(lifetime, idx) ==
  [ element |-> "text", x |-> LifetimeXm(idx) + 10, y |-> LifetimeY0(lifetime) + 15,
    class |-> "annotation", content |-> markup_to_svg(lifetime.comment) ]

\* The bracket of the lifetime at index idx.
LifetimePath(lifetime, idx) ==
  LET x0 == LifetimeX0
      xm == LifetimeXm(idx)
      x1 == LifetimeX1
      y0 == LifetimeY0(lifetime)
      ym == LifetimeYm(lifetime)
      y1 == LifetimeY1(lifetime)
      half == (x0 + xm) \div 2
  IN  [ element |-> "path", class |-> "line",
        d |-> << << x0, y0 >>, << half, y0 >>, << half, ym >>, << xm, ym >>,
                 << half, ym >>, << half, y1 >>, << x1, y1 >> >> ]

generate_svg(c, lts) ==
  LET L == Len(c)
      S == Len(lts)
  IN  [ k \in 1 .. (1 + L + 2 * S) |->
          IF k = 1 THEN Defs
          ELSE IF k <= 1 + L THEN CodeText(c, k - 2)
          ELSE LET j == k - 2 - L
                   idx == j \div 2
               IN  IF j % 2 = 0
                     THEN LifetimeText(lts[idx + 1], idx)
                     ELSE LifetimePath(lts[idx + 1], idx) ]

(***************************************************************************)
(* The program: main calls run, run reads stdin, calls find_lifetimes and  *)
(* generate_svg, and main prints what run returned.                        *)
(***************************************************************************)
VARIABLES
  stdin,                  \* the lines on standard input
  pc,                     \* where the program is
  code,                   \* run's `code`, mutated by find_lifetimes
  i,                      \* find_lifetimes' loop index
  unfinished_lifetimes,   \* find_lifetimes' open-span table
  lifetimes,              \* find_lifetimes' result vector
  result,                 \* << >> until run returns, then << its Result >>
  stdout,                 \* the lines printed to standard output
  stderr,                 \* the panic messages printed to standard error
  markup,                 \* markup_to_svg's argument
  scan,                   \* markup_to_svg's locals
  pos                     \* how many characters of markup the loop has taken

vars ==
  << stdin, pc, code, i, unfinished_lifetimes, lifetimes, result, stdout, stderr,
     markup, scan, pos >>

Init ==
  /\ stdin \in Inputs
  /\ pc = "read"
  /\ code = << >>
  /\ i = 0
  /\ unfinished_lifetimes = EmptyMap
  /\ lifetimes = << >>
  /\ result = << >>
  /\ stdout = << >>
  /\ stderr = << >>
  /\ markup = << >>
  /\ scan = MarkupInit
  /\ pos = 0

\* read_to_string succeeds; the buffer is split into lines and find_lifetimes is
\* entered with an empty table and an empty vector.
run_read ==
  /\ pc = "read"
  /\ code' = stdin
  /\ i' = 0
  /\ unfinished_lifetimes' = EmptyMap
  /\ lifetimes' = << >>
  /\ pc' = "find_lifetimes"
  /\ UNCHANGED << markup, scan, pos, stdin, result, stdout, stderr >>

\* read_to_string fails; `?` returns the error's text from run.
run_read_err ==
  /\ pc = "read"
  /\ result' = << [ tag |-> "Err", message |-> "stream did not contain valid UTF-8" ] >>
  /\ pc' = "main"
  /\ UNCHANGED << markup, scan, pos, stdin, code, i, unfinished_lifetimes, lifetimes, stdout, stderr >>

\* Mutant: the message is reported and find_lifetimes returns what it has.
MutPanicReturns(message) ==
  /\ stderr' = Append(stderr, message)
  /\ pc' = "generate_svg"
  /\ UNCHANGED << markup, scan, pos, stdin, code, i, unfinished_lifetimes, lifetimes, result, stdout >>

\* panic!: the message goes to standard error and the process ends.
Panic(message) ==
  /\ stderr' = Append(stderr, message)
  /\ pc' = "panicked"
  /\ UNCHANGED << markup, scan, pos, stdin, code, i, unfinished_lifetimes, lifetimes, result, stdout >>

\* One iteration of find_lifetimes' loop.
find_lifetimes_loop ==
  /\ pc = "find_lifetimes"
  /\ i < Len(code)
  /\ LET b == LoopBody(code, unfinished_lifetimes, lifetimes, i)
     IN  IF b.panic # << >>
           THEN Panic(b.panic[1])
           ELSE /\ code' = b.code
                /\ unfinished_lifetimes' = b.unfinished_lifetimes
                /\ lifetimes' = b.lifetimes
                /\ i' = i + 1
                /\ UNCHANGED << markup, scan, pos, stdin, pc, result, stdout, stderr >>

\* Mutant: an entry left in the table at the end is a panic.
MutReturnRejectsOpen ==
  /\ pc = "find_lifetimes"
  /\ i >= Len(code)
  /\ IF DOMAIN unfinished_lifetimes # { }
       THEN Panic(<< "Lifetime not finished" >>)
       ELSE /\ pc' = "generate_svg"
            /\ UNCHANGED << markup, scan, pos, stdin, code, i, unfinished_lifetimes,
                            lifetimes, result, stdout, stderr >>

\* The loop is over: find_lifetimes returns `lifetimes`.
find_lifetimes_return ==
  /\ pc = "find_lifetimes"
  /\ i >= Len(code)
  /\ pc' = "generate_svg"
  /\ UNCHANGED << markup, scan, pos, stdin, code, i, unfinished_lifetimes, lifetimes, result, stdout, stderr >>

\* let svg = generate_svg(&code, &lifetimes); Ok(svg)
run_generate_svg ==
  /\ pc = "generate_svg"
  /\ result' = << [ tag |-> "Ok", svg |-> generate_svg(code, lifetimes) ] >>
  /\ pc' = "main"
  /\ UNCHANGED << markup, scan, pos, stdin, code, i, unfinished_lifetimes, lifetimes, stdout, stderr >>

\* println!: one line, as the pieces of its format string.
MainLine(res) ==
  IF res.tag = "Ok" THEN << res.svg >> ELSE << "Error: ", res.message >>

\* main's match on run's result.
main_print ==
  /\ pc = "main"
  /\ stdout' = Append(stdout, MainLine(result[1]))
  /\ pc' = "exit"
  /\ UNCHANGED << markup, scan, pos, stdin, code, i, unfinished_lifetimes, lifetimes, result, stderr >>

Next ==
  \/ run_read
  \/ run_read_err
  \/ find_lifetimes_loop
  \/ find_lifetimes_return
  \/ run_generate_svg
  \/ main_print

Spec == Init /\ [][Next]_vars

(***************************************************************************)
(* markup_to_svg on its own, one character at a time, on every label text  *)
(* of length at most MaxMarkup and on the example of its flat runs.        *)
(***************************************************************************)
MarkupChars == { "*", "_", "/", Backtick, "\\", "a", " " }

\* "*foo_bar*baz_"
FlatnessExample ==
  << "*", "f", "o", "o", "_", "b", "a", "r", "*", "b", "a", "z", "_" >>

Labels == SeqsUpTo(MarkupChars, MaxMarkup) \cup { FlatnessExample }

InitMarkup ==
  /\ markup \in Labels
  /\ scan = MarkupInit
  /\ pos = 0
  /\ pc = "markup_to_svg"
  /\ stdin = << >>
  /\ code = << >>
  /\ i = 0
  /\ unfinished_lifetimes = EmptyMap
  /\ lifetimes = << >>
  /\ result = << >>
  /\ stdout = << >>
  /\ stderr = << >>

\* One iteration of `for c in markup.chars()`.
markup_to_svg_char ==
  /\ pc = "markup_to_svg"
  /\ pos < Len(markup)
  /\ scan' = MarkupChar(scan, markup[pos + 1])
  /\ pos' = pos + 1
  /\ UNCHANGED << markup, pc, stdin, code, i, unfinished_lifetimes, lifetimes, result,
                  stdout, stderr >>

\* The characters are used up: markup_to_svg returns `output`.
markup_to_svg_return ==
  /\ pc = "markup_to_svg"
  /\ pos >= Len(markup)
  /\ pc' = "markup_returned"
  /\ UNCHANGED << markup, scan, pos, stdin, code, i, unfinished_lifetimes, lifetimes,
                  result, stdout, stderr >>

NextMarkup ==
  \/ markup_to_svg_char
  \/ markup_to_svg_return

SpecMarkup == InitMarkup /\ [][NextMarkup]_vars

(***************************************************************************)
(* The annotations of the input, read off stdin alone.                     *)
(***************************************************************************)
Rows == 0 .. (Len(stdin) - 1)

Ann(r) == IsMatch(stdin[r + 1])

AnnWidth(r) == Len(Captures(stdin[r + 1])[2])

AnnOpen(r) == Ann(r) /\ Captures(stdin[r + 1])[3] = << "\\" >>

AnnClose(r) == Ann(r) /\ Captures(stdin[r + 1])[3] = << "/" >>

Widths == { AnnWidth(r) : r \in { q \in Rows : Ann(q) } }

\* The rows before row j that open width w and have no close of width w between
\* them and row j.
PendingOpenRows(w, j) ==
  { r \in 0 .. (j - 1) :
      /\ AnnOpen(r) /\ AnnWidth(r) = w
      /\ \A m \in (r + 1) .. (j - 1) : ~(AnnClose(m) /\ AnnWidth(m) = w) }

\* find_lifetimes has returned.
Returned == pc \in { "generate_svg", "main", "exit" } /\ stderr = << >> /\ code # << >>

\* find_lifetimes has been entered (it may have returned or panicked since).
Entered == pc # "read" /\ Len(code) = Len(stdin)

\* The width a returned lifetime was opened with.
OpenedWidth(lt) == AnnWidth(lt.starting_line)

(***************************************************************************)
(* C1: at every step of the scan each width has at most one pending open   *)
(* row among the rows scanned so far, the table holds exactly the widths   *)
(* that have one, with that row as starting_line; and any two lifetimes    *)
(* in the result that were opened with the same width have disjoint row    *)
(* ranges.                                                                 *)
(***************************************************************************)
C1_OneOpenSpanPerWidth ==
  Entered =>
    /\ \A w \in Widths \cup DOMAIN unfinished_lifetimes :
         /\ Cardinality(PendingOpenRows(w, i)) <= 1
         /\ contains_key(unfinished_lifetimes, w) <=> PendingOpenRows(w, i) # { }
         /\ contains_key(unfinished_lifetimes, w) =>
              unfinished_lifetimes[w].starting_line \in PendingOpenRows(w, i)
    /\ \A a, b \in 1 .. Len(lifetimes) :
         (a # b /\ OpenedWidth(lifetimes[a]) = OpenedWidth(lifetimes[b])) =>
           \/ lifetimes[a].ending_line < lifetimes[b].starting_line
           \/ lifetimes[b].ending_line < lifetimes[a].starting_line

\* Two lifetimes of the same width were returned.
C1_Witness ==
  /\ Returned
  /\ \E a, b \in 1 .. Len(lifetimes) :
       a # b /\ OpenedWidth(lifetimes[a]) = OpenedWidth(lifetimes[b])

(***************************************************************************)
(* C2: an OPEN annotation at row j whose width has a pending open row r    *)
(* makes the scan panic with the message naming r, then j; nothing is      *)
(* returned; and the scan never gets past such a row.                      *)
(***************************************************************************)
C2_SpanConflictPanics ==
  Entered =>
    /\ \A j \in 0 .. (i - 1) :
         ~(AnnOpen(j) /\ PendingOpenRows(AnnWidth(j), j) # { })
    /\ (pc = "find_lifetimes" /\ i < Len(code) /\ AnnOpen(i)
          /\ PendingOpenRows(AnnWidth(i), i) # { })
         => LoopBody(code, unfinished_lifetimes, lifetimes, i).panic # << >>
    /\ (pc = "panicked" /\ AnnOpen(i)) =>
         /\ \E r \in PendingOpenRows(AnnWidth(i), i) :
              stderr = << << "Lifetime from line ", r,
                             " not finished before it is started again on line ", i >> >>
         /\ result = << >>
         /\ stdout = << >>

\* The error scenario: width opened at row 0 and again at row 1.
C2_Witness ==
  /\ pc = "panicked"
  /\ i = 1
  /\ AnnOpen(0) /\ AnnOpen(1) /\ AnnWidth(0) = AnnWidth(1)
  /\ Len(stderr) = 1 /\ Len(stderr[1]) = 4 /\ stderr[1][2] = 0 /\ stderr[1][4] = 1

(***************************************************************************)
(* C3: a CLOSE annotation at row j whose width has no pending open row     *)
(* makes the scan panic with the message naming j; nothing is returned;    *)
(* and the scan never gets past such a row.                                *)
(***************************************************************************)
C3_UnmatchedClosePanics ==
  Entered =>
    /\ \A j \in 0 .. (i - 1) :
         ~(AnnClose(j) /\ PendingOpenRows(AnnWidth(j), j) = { })
    /\ (pc = "find_lifetimes" /\ i < Len(code) /\ AnnClose(i)
          /\ PendingOpenRows(AnnWidth(i), i) = { })
         => LoopBody(code, unfinished_lifetimes, lifetimes, i).panic # << >>
    /\ (pc = "panicked" /\ AnnClose(i)) =>
         /\ PendingOpenRows(AnnWidth(i), i) = { }
         /\ stderr = << << "Ending lifetime on line ", i, " wasn't started" >> >>
         /\ result = << >>
         /\ stdout = << >>

\* A close of a width that was opened and closed before it: rows 0, 1, then 2.
C3_Witness ==
  /\ pc = "panicked"
  /\ i = 2
  /\ AnnOpen(0) /\ AnnClose(1) /\ AnnClose(2)
  /\ AnnWidth(0) = AnnWidth(1) /\ AnnWidth(1) = AnnWidth(2)
  /\ Len(stderr) = 1 /\ Len(stderr[1]) = 3 /\ stderr[1][2] = 2

(***************************************************************************)
(* C4: the result is in the order of the CLOSE rows: ending_line is        *)
(* strictly increasing along it and its ending_lines are exactly the       *)
(* CLOSE rows scanned, whatever the order of the starting_lines.           *)
(***************************************************************************)
C4_OrderedByClose ==
  Entered =>
    /\ \A a, b \in 1 .. Len(lifetimes) :
         a < b => lifetimes[a].ending_line < lifetimes[b].ending_line
    /\ { lifetimes[a].ending_line : a \in 1 .. Len(lifetimes) }
         = { r \in 0 .. (i - 1) : AnnClose(r) }

\* The lifetime opened first is closed last and comes second.
C4_Witness ==
  /\ Returned
  /\ Len(lifetimes) = 2
  /\ lifetimes[1].starting_line > lifetimes[2].starting_line
  /\ lifetimes[1].ending_line < lifetimes[2].ending_line

(***************************************************************************)
(* Pairing of the input's annotations, read off stdin alone.               *)
(***************************************************************************)
NumAnnotations == Cardinality({ r \in Rows : Ann(r) })

\* The annotation rows of the width of row r, before and after it.
SameWidthBefore(r) == { q \in 0 .. (r - 1) : Ann(q) /\ AnnWidth(q) = AnnWidth(r) }
SameWidthAfter(r) == { q \in (r + 1) .. (Len(stdin) - 1) : Ann(q) /\ AnnWidth(q) = AnnWidth(r) }

Last(S) == CHOOSE q \in S : \A q2 \in S : q2 <= q

\* Each width's annotations alternate OPEN, CLOSE, OPEN, ... starting with OPEN.
WellAlternating ==
  \A r \in Rows :
    Ann(r) =>
      /\ AnnOpen(r) => (SameWidthBefore(r) = { } \/ AnnClose(Last(SameWidthBefore(r))))
      /\ AnnClose(r) => (SameWidthBefore(r) # { } /\ AnnOpen(Last(SameWidthBefore(r))))

\* ... and each width's last annotation is a CLOSE: every annotation has a partner.
CorrectlyPaired ==
  /\ WellAlternating
  /\ \A r \in Rows : (AnnOpen(r) => SameWidthAfter(r) # { })

(***************************************************************************)
(* C5, as amended: on an input whose N annotation lines are correctly      *)
(* paired, find_lifetimes returns, and returns N / 2 lifetimes, one for    *)
(* each OPEN/CLOSE pair.                                                   *)
(***************************************************************************)
C5_OneSpanPerPair ==
  (Entered /\ CorrectlyPaired) =>
    /\ pc # "panicked"
    /\ Returned => 2 * Len(lifetimes) = NumAnnotations

\* Four correctly paired annotation lines, two lifetimes.
C5_Witness ==
  /\ Returned
  /\ CorrectlyPaired
  /\ NumAnnotations = 4
  /\ Len(lifetimes) = 2

\* C5 as stated: N correctly paired annotation lines give N lifetimes.
C5_Original ==
  (Returned /\ CorrectlyPaired) => Len(lifetimes) = NumAnnotations

(***************************************************************************)
(* C6 as stated: find_lifetimes run again on the buffer it has cleaned     *)
(* returns no lifetimes and leaves the buffer as it is; no cleaned line    *)
(* matches the annotation grammar.                                         *)
(***************************************************************************)
C6_Original ==
  Returned =>
    /\ \A k \in 1 .. Len(code) : ~IsMatch(code[k])
    /\ LET again == find_lifetimes(code)
       IN  /\ again.panic = << >>
           /\ again.lifetimes = << >>
           /\ again.code = code

(***************************************************************************)
(* C7: the buffer keeps its length; a scanned row that matched the grammar *)
(* holds capture group 1 of the input line, the longest prefix that the    *)
(* annotation token follows; every other row holds the input line.         *)
(***************************************************************************)
\* p is the part of line before its last annotation token.
IsCodePrefix(p, line) ==
  /\ Len(p) <= Len(line)
  /\ p = SubSeq(line, 1, Len(p))
  /\ TailMatches(line, Len(p))
  /\ \A k \in (Len(p) + 1) .. Len(line) : ~TailMatches(line, k)

C7_OnlyAnnotationsStripped ==
  Entered =>
    /\ Len(code) = Len(stdin)
    /\ \A r \in Rows :
         IF r < i /\ Ann(r)
           THEN /\ code[r + 1] = Captures(stdin[r + 1])[1]
                /\ IsCodePrefix(code[r + 1], stdin[r + 1])
           ELSE code[r + 1] = stdin[r + 1]

\* A returned buffer with a stripped row that keeps some code and an untouched
\* row that has some.
C7_Witness ==
  /\ Returned
  /\ \E r \in Rows : Ann(r) /\ code[r + 1] # << >> /\ code[r + 1] # stdin[r + 1]
  /\ \E r \in Rows : ~Ann(r) /\ code[r + 1] # << >>

(***************************************************************************)
(* C8: once find_lifetimes has panicked the program is over: run has       *)
(* returned nothing, so generate_svg was not called, and nothing is, or    *)
(* will be, on standard output.                                            *)
(***************************************************************************)
C8_NoRenderAfterPanic ==
  stderr # << >> =>
    /\ pc = "panicked"
    /\ result = << >>
    /\ stdout = << >>

\* A panic after a lifetime had already been completed.
C8_Witness ==
  /\ pc = "panicked"
  /\ Len(stderr) = 1
  /\ Len(lifetimes) >= 1

(***************************************************************************)
(* C9 as stated: when the program has ended, standard output holds exactly *)
(* one line, the complete diagram or a line that starts with "Error: ".    *)
(***************************************************************************)
IsErrorLine(line) == Len(line) = 2 /\ line[1] = "Error: "

IsDiagramLine(line) == Len(line) = 1 /\ line[1] = generate_svg(code, lifetimes)

C9_Original ==
  pc \in { "exit", "panicked" } =>
    /\ Len(stdout) = 1
    /\ IsErrorLine(stdout[1]) \/ IsDiagramLine(stdout[1])

(***************************************************************************)
(* C10: on an input in which each width's annotations alternate OPEN,      *)
(* CLOSE, ... starting with OPEN, find_lifetimes never panics, however the *)
(* widths interleave.                                                      *)
(***************************************************************************)
C10_InterleavingSucceeds ==
  (Entered /\ WellAlternating) =>
    /\ pc # "panicked"
    /\ (pc = "find_lifetimes" /\ i < Len(code)) =>
         LoopBody(code, unfinished_lifetimes, lifetimes, i).panic = << >>

\* Two returned lifetimes that cross: a opens, b opens, a closes, b closes.
C10_Witness ==
  /\ Returned
  /\ \E a, b \in 1 .. Len(lifetimes) :
       /\ lifetimes[a].starting_line < lifetimes[b].starting_line
       /\ lifetimes[b].starting_line < lifetimes[a].ending_line
       /\ lifetimes[a].ending_line < lifetimes[b].ending_line
       /\ OpenedWidth(lifetimes[a]) # OpenedWidth(lifetimes[b])

(***************************************************************************)
(* The runs of markup_to_svg's output, read off the output alone.          *)
(***************************************************************************)
\* The tag that opens a run of the given classes.
ClassTag(bold, underline, italic, mono) ==
  "<tspan class=\"" \o (IF bold THEN "m_bold" ELSE "") \o " "
    \o (IF underline THEN "m_underline" ELSE "") \o " "
    \o (IF italic THEN "m_italic" ELSE "") \o " "
    \o (IF mono THEN "m_code" ELSE "") \o "\">"

OpenTags == { ClassTag(b, u, t, m) : b \in BOOLEAN, u \in BOOLEAN, t \in BOOLEAN, m \in BOOLEAN }

IsOpenTag(tok) == tok \in OpenTags

IsCloseTag(tok) == tok = "</tspan>"

\* Among the first n tokens of out: how many open a run, how many close one.
OpenCount(out, n) == Cardinality({ k \in 1 .. n : IsOpenTag(out[k]) })
CloseCount(out, n) == Cardinality({ k \in 1 .. n : IsCloseTag(out[k]) })

\* The runs open after the first n tokens of out.
RunDepth(out, n) == OpenCount(out, n) - CloseCount(out, n)

TogglesOn == scan.in_bold \/ scan.in_underline \/ scan.in_italic \/ scan.in_code

Toggles(st) == << st.in_bold, st.in_underline, st.in_italic, st.in_code >>

MarkupReturned == pc = "markup_returned"

(***************************************************************************)
(* C11: the runs are flat: after every token of the output at most one run *)
(* is open; a run is open exactly when some toggle is on, and it was       *)
(* opened with the tag of all the toggles that are on; a tag that opens a  *)
(* run never follows another without the closing tag between them.         *)
(* "*foo_bar*baz_" gives the runs bold "foo", bold+underline "bar",        *)
(* underline "baz".                                                        *)
(***************************************************************************)
C11_FlatRuns ==
  pc \in { "markup_to_svg", "markup_returned" } =>
    LET out == scan.output
    IN  /\ \A n \in 0 .. Len(out) : RunDepth(out, n) \in { 0, 1 }
        /\ RunDepth(out, Len(out)) = 1 <=> TogglesOn
        /\ TogglesOn =>
             LET last == CHOOSE k \in 1 .. Len(out) :
                           IsOpenTag(out[k]) /\ \A k2 \in (k + 1) .. Len(out) : ~IsOpenTag(out[k2])
             IN  out[last] = ClassTag(scan.in_bold, scan.in_underline,
                                      scan.in_italic, scan.in_code)
        /\ (MarkupReturned /\ markup = FlatnessExample) =>
             out = << ClassTag(TRUE, FALSE, FALSE, FALSE), "f", "o", "o", "</tspan>",
                      ClassTag(TRUE, TRUE, FALSE, FALSE), "b", "a", "r", "</tspan>",
                      ClassTag(FALSE, TRUE, FALSE, FALSE), "b", "a", "z", "</tspan>" >>

\* The example has been scanned: three runs were opened.
C11_Witness ==
  /\ MarkupReturned
  /\ markup = FlatnessExample
  /\ OpenCount(scan.output, Len(scan.output)) = 3

(***************************************************************************)
(* C12: a label text without delimiter and without escape character comes *)
(* out as it went in, and no run is opened.                                *)
(***************************************************************************)
IsPlain(text) ==
  \A k \in 1 .. Len(text) : text[k] \notin { "*", "_", "/", Backtick, "\\" }

C12_PlainTextUnchanged ==
  (MarkupReturned /\ IsPlain(markup)) =>
    /\ scan.output = markup
    /\ OpenCount(scan.output, Len(scan.output)) = 0
    /\ ~TogglesOn

\* "a a" went through.
C12_Witness ==
  /\ MarkupReturned
  /\ markup = << "a", " ", "a" >>
  /\ scan.output = << "a", " ", "a" >>

(***************************************************************************)
(* C17 as stated: the output of markup_to_svg closes every run it opens,   *)
(* the trailing one included.                                              *)
(***************************************************************************)
C17_Original ==
  MarkupReturned =>
    OpenCount(scan.output, Len(scan.output)) = CloseCount(scan.output, Len(scan.output))

(***************************************************************************)
(* C18: the character after an escape character is appended as it is,     *)
(* flips no toggle, opens and closes no run, and clears the escape flag;   *)
(* an escape character that is not itself escaped appends nothing, flips   *)
(* no toggle and sets the flag, also as the last character; any other      *)
(* character leaves the flag clear.                                        *)
(***************************************************************************)
C18_Step ==
  (pc = "markup_to_svg" /\ pos < Len(markup) /\ pos' = pos + 1) =>
    LET c == markup[pos + 1]
    IN  /\ scan.escaped =>
             /\ scan'.output = Append(scan.output, c)
             /\ Toggles(scan') = Toggles(scan)
             /\ scan'.escaped = FALSE
        /\ (~scan.escaped /\ c = "\\") =>
             /\ scan'.output = scan.output
             /\ Toggles(scan') = Toggles(scan)
             /\ scan'.escaped = TRUE
        /\ (~scan.escaped /\ c # "\\") => scan'.escaped = FALSE

C18_EscapeIsLiteral == [][C18_Step]_vars

\* An escaped "*", an "a" and a last escape character: the delimiter came out as
\* it is, no toggle is on, and the last escape character left only its flag.
C18_Witness ==
  /\ MarkupReturned
  /\ markup = << "\\", "*", "a", "\\" >>
  /\ scan.output = << "*", "a" >>
  /\ scan.escaped
  /\ ~TogglesOn

(***************************************************************************)
(* The document run returned, read off `result`.                           *)
(***************************************************************************)
Rendered == Len(result) = 1 /\ result[1].tag = "Ok"

Doc == result[1].svg

\* The label and the bracket of the lifetime at index idx of `lifetimes`.
LabelOf(idx) == Doc[1 + Len(code) + 2 * idx + 1]
PathOf(idx) == Doc[1 + Len(code) + 2 * idx + 2]

LifetimeIndexes == 0 .. (Len(lifetimes) - 1)

(***************************************************************************)
(* C13, as amended: the bracket of the lifetime at index idx of the list   *)
(* find_lifetimes returned starts and ends at x = 150, between that        *)
(* lifetime's y0 and y1, and its outer point is at x = 230 + 20 * idx.     *)
(***************************************************************************)
C13_FanOutByIndex ==
  Rendered =>
    \A idx \in LifetimeIndexes :
      LET d == PathOf(idx).d
          lt == lifetimes[idx + 1]
      IN  /\ PathOf(idx).element = "path"
          /\ d[1] = << 150, lt.starting_line * 20 + 10 >>
          /\ d[4] = << 230 + 20 * idx, (lt.starting_line + 1) * 20 >>
          /\ d[7] = << 150, lt.ending_line * 20 + 30 >>

\* Two nested lifetimes: the outer one was closed last, so it is second in the
\* list and its bracket reaches further out than the inner one's.
C13_Witness ==
  /\ Rendered
  /\ Len(lifetimes) = 2
  /\ lifetimes[2].starting_line < lifetimes[1].starting_line
  /\ PathOf(0).d[4][1] = 230
  /\ PathOf(1).d[4][1] = 250

\* C13 as stated: the outer point is at x = (150 + 230) + 20 * idx.
C13_Original ==
  Rendered =>
    \A idx \in LifetimeIndexes :
      /\ PathOf(idx).d[1][1] = 150
      /\ PathOf(idx).d[4][1] = (150 + 230) + 20 * idx
      /\ PathOf(idx).d[7][1] = 150

(***************************************************************************)
(* C14: after the style block the document holds one code text per row of  *)
(* the cleaned buffer, blank rows too, row r at (0, 20 r + 20), and then   *)
(* for each lifetime one annotation text and one path: L + 2 S elements.   *)
(***************************************************************************)
C14_ElementCount ==
  Rendered =>
    LET L == Len(code)
        S == Len(lifetimes)
        rest == 2 .. Len(Doc)
    IN  /\ Doc[1].element = "defs"
        /\ Len(Doc) = 1 + L + 2 * S
        /\ \A r \in 0 .. (L - 1) :
             /\ Doc[r + 2].element = "text"
             /\ Doc[r + 2].class = "code"
             /\ Doc[r + 2].x = 0
             /\ Doc[r + 2].y = r * 20 + 20
        /\ Cardinality({ k \in rest : Doc[k].element = "text" /\ Doc[k].class = "code" }) = L
        /\ Cardinality({ k \in rest : Doc[k].element = "text" /\ Doc[k].class = "annotation" }) = S
        /\ Cardinality({ k \in rest : Doc[k].element = "path" }) = S
        /\ \A idx \in LifetimeIndexes :
             /\ LabelOf(idx).element = "text" /\ LabelOf(idx).class = "annotation"
             /\ PathOf(idx).element = "path"

\* A document for a buffer with a blank row and a lifetime.
C14_Witness ==
  /\ Rendered
  /\ \E k \in 1 .. Len(code) : code[k] = << >> /\ stdin[k] = << >>
  /\ Len(lifetimes) >= 1
  /\ Len(Doc) = 1 + Len(code) + 2 * Len(lifetimes)

(***************************************************************************)
(* C15: every lifetime in the result starts at a row before the row it     *)
(* ends at, and both are rows of the buffer.                               *)
(***************************************************************************)
C15_StartBeforeEnd ==
  Entered =>
    \A a \in 1 .. Len(lifetimes) :
      /\ 0 <= lifetimes[a].starting_line
      /\ lifetimes[a].starting_line < lifetimes[a].ending_line
      /\ lifetimes[a].ending_line < Len(code)

\* A returned lifetime from the first row to the last of at least three.
C15_Witness ==
  /\ Returned
  /\ Len(code) >= 3
  /\ \E a \in 1 .. Len(lifetimes) :
       lifetimes[a].starting_line = 0 /\ lifetimes[a].ending_line = Len(code) - 1

(***************************************************************************)
(* C16: an OPEN with no later CLOSE of its width is no error: the scan     *)
(* ends with its entry still in the table, find_lifetimes returns, the     *)
(* result has no lifetime for it, its line is stripped like any other, and *)
(* the diagram is printed.                                                 *)
(***************************************************************************)
Unterminated(r) ==
  /\ AnnOpen(r)
  /\ \A q \in (r + 1) .. (Len(stdin) - 1) : ~(AnnClose(q) /\ AnnWidth(q) = AnnWidth(r))

C16_UnterminatedDiscarded ==
  (Entered /\ WellAlternating /\ \E r \in Rows : Unterminated(r)) =>
    /\ pc # "panicked"
    /\ stderr = << >>
    /\ i = Len(code) =>
         \A r \in Rows :
           Unterminated(r) =>
             /\ contains_key(unfinished_lifetimes, AnnWidth(r))
             /\ \A a \in 1 .. Len(lifetimes) : lifetimes[a].starting_line # r
             /\ code[r + 1] = Captures(stdin[r + 1])[1]
             /\ code[r + 1] # stdin[r + 1]
    /\ pc = "exit" => stdout = << << generate_svg(code, lifetimes) >> >>

\* The program has ended on an input with a finished and an unfinished lifetime.
C16_Witness ==
  /\ pc = "exit"
  /\ stderr = << >>
  /\ Len(lifetimes) = 1
  /\ \E r \in Rows : Unterminated(r)
  /\ Len(stdout) = 1

(***************************************************************************)
(* C19: a width can be opened again once it is closed: such an OPEN is     *)
(* accepted, and every lifetime in the result ends at a CLOSE row and      *)
(* starts at the last OPEN row of that width before it.                    *)
(***************************************************************************)
C19_WidthReuse ==
  Entered =>
    /\ (pc = "find_lifetimes" /\ i < Len(code) /\ AnnOpen(i)
          /\ SameWidthBefore(i) # { } /\ AnnClose(Last(SameWidthBefore(i))))
         => LoopBody(code, unfinished_lifetimes, lifetimes, i).panic = << >>
    /\ \A a \in 1 .. Len(lifetimes) :
         LET e == lifetimes[a].ending_line
             opens == { q \in 0 .. (e - 1) : AnnOpen(q) /\ AnnWidth(q) = AnnWidth(e) }
         IN  /\ AnnClose(e)
             /\ opens # { }
             /\ lifetimes[a].starting_line = Last(opens)

\* OPEN w, CLOSE w, OPEN w, CLOSE w gave the lifetimes 0..1 and 2..3.
C19_Witness ==
  /\ Returned
  /\ Len(lifetimes) = 2
  /\ lifetimes[1].starting_line = 0 /\ lifetimes[1].ending_line = 1
  /\ lifetimes[2].starting_line = 2 /\ lifetimes[2].ending_line = 3
  /\ AnnWidth(0) = AnnWidth(2)

(***************************************************************************)
(* C20: the result holds as many lifetimes as CLOSE rows were scanned, the *)
(* table as many entries as OPEN rows minus CLOSE rows were scanned, and   *)
(* no row is the start or the end of more than one lifetime.               *)
(***************************************************************************)
ScannedOpens == { r \in 0 .. (i - 1) : AnnOpen(r) }
ScannedCloses == { r \in 0 .. (i - 1) : AnnClose(r) }

C20_Counts ==
  Entered =>
    /\ Len(lifetimes) = Cardinality(ScannedCloses)
    /\ Cardinality(DOMAIN unfinished_lifetimes)
         = Cardinality(ScannedOpens) - Cardinality(ScannedCloses)
    /\ \A r \in Rows :
         Cardinality({ a \in 1 .. Len(lifetimes) :
                         lifetimes[a].starting_line = r \/ lifetimes[a].ending_line = r }) <= 1

\* Returned with one lifetime finished and one entry left in the table.
C20_Witness ==
  /\ Returned
  /\ i = Len(code)
  /\ Len(lifetimes) = 1
  /\ Cardinality(DOMAIN unfinished_lifetimes) = 1
  /\ Cardinality(ScannedOpens) = 2

====
